---- MODULE Spec2Model ----
(***************************************************************************)
(* Full-page screenshot capture (src/index.js).                            *)
(*                                                                         *)
(* captureFullPageScreenshot is modelled as a sequential process whose     *)
(* position is pc; every await of the source is one step, and every call   *)
(* on the browser or the page may throw.  The scroll positions of          *)
(* takeScreenshotsOfPage are built one loop iteration per step.            *)
(***************************************************************************)
EXTENDS Integers, Sequences, FiniteSets, TLC

\* ---------------------------------------------------------------- bounds

MaxViewport == 4
MaxHeight == 7
MaxElements == 3
MaxOffset == 2
MaxCalls == 2

\* ------------------------------------------------------ program constants

DefaultViewportWidth == 1366
DefaultViewportHeight == 768
DefaultOverlap == 100
SaveViewportWidth == 1770
SaveViewportHeight == 1000
SaveOverlap == 100
StabilizeMs == 4000
FirstSettleMs == 2000
NextSettleMs == 500

\* ---------------------------------------------------------------- inputs

\* (viewportHeight, overlap) pairs: a small grid that holds valid overlaps,
\* negative ones, overlap = viewportHeight and overlap > viewportHeight, and
\* the two configurations the source itself uses.
SmallConfigs == { <<vh, ov>> : vh \in 1..MaxViewport, ov \in (-1)..MaxViewport }

SourceConfigs == { <<DefaultViewportHeight, DefaultOverlap>>,
                   <<SaveViewportHeight, SaveOverlap>> }

Configs == SmallConfigs \cup SourceConfigs

\* document heights page.evaluate may measure
ExampleHeights == { 2000 }

Heights(vh) == IF vh <= MaxViewport THEN 0..MaxHeight ELSE ExampleHeights

\* the viewport width that goes with a viewport height: the width of
\* saveScreenshotToFile for its height, the default width otherwise
Widths(vh) == IF vh = SaveViewportHeight
              THEN { SaveViewportWidth }
              ELSE { DefaultViewportWidth }

\* a proxy credential option is either left out or a non-empty string
Credentials == { "undefined", "secret" }

\* the positions loop of an invalid configuration never ends; the model stops
\* following it after PlanCap entries (no valid configuration gets there)
PlanCap == MaxHeight + 2

VARIABLES
    pc,              \* position in captureFullPageScreenshot
    urlValid,        \* whether new URL(url) accepts the url
    viewportWidth, viewportHeight, overlap,
    useScraperApi, proxyUsername, proxyPassword,
    browser,         \* "undefined" | "open" | "closed" | "close-failed"
    attempt,         \* 1 inside the inner try block, 2 inside its catch block
    caught,          \* navigationError: what the inner catch received
    thrown,          \* the exception travelling out of the function
    finalBuffer,     \* Undefined or the stitched raster
    result,          \* what the caller receives: Pending, a raster, an error
    fullHeight, positions, currentPos, snapped,
    idx, counter, screenshots, scrollY, settleMs,
    launchCount, navCount, authCount, normCount, closeCount, lastOp,
    failures,        \* history: every exception raised so far
    completed,       \* history: the steps the current attempt has completed
    scrolled,        \* history: a window.scrollTo was issued on the page
    dom,             \* the document of the page: its elements, body first
    normAt           \* history: the scroll offsets of the completed
                     \* convertFixedElementsToAbsolute calls

vars == << pc, urlValid, viewportHeight, overlap, useScraperApi, proxyUsername,
           proxyPassword, browser, attempt, caught, thrown, finalBuffer, result,
           fullHeight, positions, currentPos, snapped, idx, counter,
           screenshots, scrollY, settleMs, launchCount, navCount, authCount,
           normCount, closeCount, lastOp, failures, completed, scrolled,
           viewportWidth, dom, normAt >>

configVars == << urlValid, viewportWidth, viewportHeight, overlap, useScraperApi,
                 proxyUsername, proxyPassword >>
planVars == << fullHeight, positions, currentPos, snapped >>
tileVars == << idx, counter, screenshots, scrollY, settleMs >>
countVars == << launchCount, navCount, authCount, normCount, closeCount >>
domVars == << dom, normAt >>

\* ---------------------------------------------------------------- helpers

NoError == [kind |-> "none", attempt |-> 0]

Err(kind) == [kind |-> kind, attempt |-> attempt]

\* finalBuffer before it is assigned, and the caller's view before the return
Undefined == [kind |-> "undefined"]

Pending == [kind |-> "pending"]

Max(a, b) == IF a > b THEN a ELSE b

Last(s) == s[Len(s)]

\* JavaScript truthiness of an option that is undefined or a string
Truthy(s) == s \notin { "undefined", "" }

\* ------------------------------------------------------------ the document

\* an inline style length: unset, or `${n}px`
Auto == [auto |-> TRUE]

Px(n) == [px |-> n]

\* an element: its parent (0 for the body), its computed position, its inline
\* top/left/bottom/right, and where the layout puts its box: in viewport
\* coordinates while it is fixed, in document coordinates otherwise
Element(parent, position, layoutTop, layoutLeft) ==
    [parent |-> parent, position |-> position,
     top |-> Auto, left |-> Auto, bottom |-> "", right |-> "",
     layoutTop |-> layoutTop, layoutLeft |-> layoutLeft]

Positions == { "static", "fixed" }

Body == 1

Bodies == { Element(0, p, 0, 0) : p \in Positions }

\* the boxes of the elements below the body differ in their top; they
\* share one left that is not the body's
ElementsUnder(parents) ==
    { Element(par, p, t, 1) :
        par \in parents, p \in Positions, t \in 0..MaxOffset }

\* the documents of n elements; an element's parent precedes it
RECURSIVE DocsOfSize(_)
DocsOfSize(n) ==
    IF n = 1
    THEN { << b >> : b \in Bodies }
    ELSE { Append(d, x) : d \in DocsOfSize(n - 1), x \in ElementsUnder(1..(n - 1)) }

Docs == UNION { DocsOfSize(n) : n \in 1..MaxElements }

\* about:blank
BlankDoc == << Element(0, "static", 0, 0) >>

\* a page with a fixed banner at the viewport top that holds a fixed badge
BannerDoc == << Element(0, "static", 0, 0),
                Element(1, "fixed", 0, 0),
                Element(2, "fixed", 1, 1) >>

\* the documents page.goto loads
PageDocs == { BannerDoc }

\* element.children, in document order
Children(d, el) ==
    LET kids == { c \in 1..Len(d) : d[c].parent = el }
        RECURSIVE Ordered(_)
        Ordered(S) == IF S = { }
                      THEN << >>
                      ELSE LET c == CHOOSE x \in S : \A y \in S : x <= y
                           IN  << c >> \o Ordered(S \ { c })
    IN  Ordered(kids)

\* line 17: getBoundingClientRect, relative to the viewport
Rect(d, el, scroll) ==
    IF d[el].position = "fixed"
    THEN [top |-> d[el].layoutTop, left |-> d[el].layoutLeft]
    ELSE IF d[el].position = "absolute" /\ d[el].top # Auto
         THEN [top |-> d[el].top.px - scroll, left |-> d[el].left.px]
         ELSE [top |-> d[el].layoutTop - scroll, left |-> d[el].layoutLeft]

\* the conversion without the scroll offset added
ConvertElementNoScroll(d, el, scroll) ==
    IF d[el].position = "fixed"
    THEN [d EXCEPT ![el] =
            [@ EXCEPT !.position = "absolute",
                      !.top = Px(Rect(d, el, scroll).top),
                      !.left = Px(Rect(d, el, scroll).left),
                      !.bottom = "auto",
                      !.right = "auto"]]
    ELSE d

\* lines 15-25: an element whose computed position is fixed becomes absolute
\* at rect.top + scrollTop, rect.left
ConvertElement(d, el, scroll) ==
    IF d[el].position = "fixed"
    THEN [d EXCEPT ![el] =
            [@ EXCEPT !.position = "absolute",
                      !.top = Px(Rect(d, el, scroll).top + scroll),
                      !.left = Px(Rect(d, el, scroll).left),
                      !.bottom = "auto",
                      !.right = "auto"]]
    ELSE d

\* lines 14-28: convert the element, then each of its children in turn
RECURSIVE ConvertToAbsolute(_, _, _), ConvertEach(_, _, _)
ConvertToAbsolute(d, el, scroll) ==
    ConvertEach(ConvertElement(d, el, scroll), Children(d, el), scroll)

\* line 27: Array.from(element.children).forEach(convertToAbsolute)
ConvertEach(d, kids, scroll) ==
    IF kids = << >>
    THEN d
    ELSE ConvertEach(ConvertToAbsolute(d, Head(kids), scroll), Tail(kids), scroll)

\* lines 12-32, with scrollTop = window.pageYOffset ||
\* document.documentElement.scrollTop
ConvertFixedElementsToAbsolute(d, scroll) == ConvertToAbsolute(d, Body, scroll)


Init ==
    /\ pc = "validate"
    /\ dom = BlankDoc
    /\ normAt = << >>
    /\ urlValid \in BOOLEAN
    /\ \E c \in Configs : viewportHeight = c[1] /\ overlap = c[2]
    /\ viewportWidth \in Widths(viewportHeight)
    /\ useScraperApi \in BOOLEAN
    /\ proxyUsername \in Credentials
    /\ proxyPassword \in Credentials
    /\ browser = "undefined"
    /\ attempt = 1
    /\ caught = NoError
    /\ thrown = NoError
    /\ finalBuffer = Undefined
    /\ result = Pending
    /\ fullHeight = 0
    /\ positions = << >>
    /\ currentPos = 0
    /\ snapped = FALSE
    /\ idx = 0
    /\ counter = 0
    /\ screenshots = << >>
    /\ scrollY = 0
    /\ settleMs = 0
    /\ launchCount = 0
    /\ navCount = 0
    /\ authCount = 0
    /\ normCount = 0
    /\ closeCount = 0
    /\ lastOp = "none"
    /\ failures = { }
    /\ completed = { }
    /\ scrolled = FALSE

\* ------------------------------------------------- the try/catch structure

\* lines 209-215: the inner try block encloses page.goto AND processPage, so
\* anything thrown while attempt = 1 lands in catch (navigationError)
InInnerTry == attempt = 1

\* an exception err leaves the current statement
Raise(err) ==
    /\ failures' = failures \cup { err }
    /\ IF InInnerTry
       THEN /\ pc' = "catch"
            /\ caught' = err
            /\ thrown' = thrown
       ELSE /\ pc' = "finally"
            /\ thrown' = err
            /\ caught' = caught

\* a statement that completes moves on to next
Proceed(next) ==
    /\ pc' = next
    /\ UNCHANGED << caught, thrown, failures >>

\* the retry taken as soon as one credential is present
ProxyConfiguredEither ==
    useScraperApi /\ (Truthy(proxyUsername) \/ Truthy(proxyPassword))

\* line 217
ProxyConfigured == useScraperApi /\ Truthy(proxyUsername) /\ Truthy(proxyPassword)

\* ------------------------------------------------------------ start-up

\* line 177: new URL(url) throws on an invalid url, before the launch
ValidateURL ==
    /\ pc = "validate"
    /\ IF urlValid
       THEN /\ pc' = "launch"
            /\ UNCHANGED << thrown, failures >>
       ELSE /\ pc' = "finally"
            /\ thrown' = Err("url")
            /\ failures' = failures \cup { Err("url") }
    /\ UNCHANGED << configVars, domVars, browser, attempt, caught, finalBuffer, result,
                    planVars, tileVars, countVars, lastOp, completed, scrolled >>

\* lines 180-195: puppeteer.launch; browser stays undefined when it throws
Launch ==
    /\ pc = "launch"
    /\ lastOp' = "launch"
    /\ \E ok \in BOOLEAN :
         IF ok
         THEN /\ browser' = "open"
              /\ launchCount' = launchCount + 1
              /\ pc' = "newPage"
              /\ UNCHANGED << thrown, failures >>
         ELSE /\ browser' = browser
              /\ launchCount' = launchCount
              /\ pc' = "finally"
              /\ thrown' = Err("launch")
              /\ failures' = failures \cup { Err("launch") }
    /\ UNCHANGED << configVars, domVars, attempt, caught, finalBuffer, result, planVars,
                    tileVars, navCount, authCount, normCount, closeCount,
                    completed, scrolled >>

\* lines 197-198: browser.newPage, outside the inner try block
NewPage ==
    /\ pc = "newPage"
    /\ lastOp' = "newPage"
    /\ \E ok \in BOOLEAN :
         IF ok
         THEN /\ pc' = "goto"
              /\ UNCHANGED << thrown, failures >>
         ELSE /\ pc' = "finally"
              /\ thrown' = Err("newPage")
              /\ failures' = failures \cup { Err("newPage") }
    /\ UNCHANGED << configVars, domVars, browser, attempt, caught, finalBuffer, result,
                    planVars, tileVars, countVars, completed, scrolled >>

\* lines 210-213 (first attempt) and 224-227 (inside catch); a navigation
\* that succeeds shows a freshly loaded document at scroll offset 0
Goto ==
    /\ pc = "goto"
    /\ navCount' = navCount + 1
    /\ lastOp' = "goto"
    /\ \E ok \in BOOLEAN :
         IF ok
         THEN /\ completed' = { "goto" }
              /\ dom' \in PageDocs
              /\ scrollY' = 0
              /\ Proceed("stabilize")
         ELSE /\ completed' = { }
              /\ UNCHANGED << dom, scrollY >>
              /\ Raise(Err("goto"))
    /\ UNCHANGED << configVars, browser, attempt, finalBuffer, result, planVars,
                    idx, counter, screenshots, settleMs, launchCount, authCount,
                    normCount, closeCount, scrolled, normAt >>

\* ---------------------------------------------------------- processPage

\* line 202: page.waitForTimeout(4000)
Stabilize ==
    /\ pc = "stabilize"
    /\ lastOp' = "waitForTimeout"
    /\ settleMs' = StabilizeMs
    /\ \E ok \in BOOLEAN :
         IF ok THEN Proceed("normalize") ELSE Raise(Err("waitForTimeout"))
    /\ UNCHANGED << configVars, domVars, browser, attempt, finalBuffer, result, planVars,
                    idx, counter, screenshots, scrollY, countVars, completed,
                    scrolled >>

\* line 42: convertFixedElementsToAbsolute(page), one page.evaluate; when
\* the evaluate rejects, the injected function has run or it has not
Normalize ==
    /\ pc = "normalize"
    /\ lastOp' = "evaluate"
    /\ normCount' = normCount + 1
    /\ \E ok \in BOOLEAN :
         IF ok
         THEN /\ dom' = ConvertFixedElementsToAbsolute(dom, scrollY)
              /\ normAt' = Append(normAt, scrollY)
              /\ completed' = completed \cup { "normalize" }
              /\ Proceed("measure")
         ELSE /\ dom' \in { dom, ConvertFixedElementsToAbsolute(dom, scrollY) }
              /\ UNCHANGED << normAt, completed >>
              /\ Raise(Err("normalize"))
    /\ UNCHANGED << configVars, browser, attempt, finalBuffer, result, planVars,
                    tileVars, launchCount, navCount, authCount, closeCount,
                    scrolled >>

\* lines 45-57: measure the document, then positions = [], currentPos = 0
Measure ==
    /\ pc = "measure"
    /\ lastOp' = "evaluate"
    /\ \E ok \in BOOLEAN :
         IF ok
         THEN /\ \E h \in Heights(viewportHeight) : fullHeight' = h
              /\ positions' = << >>
              /\ currentPos' = 0
              /\ snapped' = FALSE
              /\ completed' = completed \cup { "measure" }
              /\ Proceed("plan_loop")
         ELSE /\ UNCHANGED << planVars, completed >>
              /\ Raise(Err("measure"))
    /\ UNCHANGED << configVars, domVars, browser, attempt, finalBuffer, result, tileVars,
                    countVars, scrolled >>

\* the exit test without the viewport: stops only once the position itself
\* has passed the bottom
LoopBreakIgnoresViewport(cur) == cur > fullHeight

\* the exit test on the position just pushed instead of the advanced one
LoopBreakBeforeAdvance(cur) ==
    (cur - (viewportHeight - overlap)) + viewportHeight > fullHeight

\* the exit test on the start position instead of the advanced one
LoopBreakOnStart(cur) == 0 + viewportHeight > fullHeight

\* line 64: the exit test of the while (true) loop, on the advanced position
LoopBreak(cur) == cur + viewportHeight > fullHeight

\* lines 60-67: one iteration of the loop
PlanLoop ==
    /\ pc = "plan_loop"
    /\ Len(positions) < PlanCap
    /\ positions' = Append(positions, currentPos)
    /\ currentPos' = currentPos + (viewportHeight - overlap)
    /\ IF LoopBreak(currentPos') THEN Proceed("plan_snap") ELSE Proceed("plan_loop")
    /\ UNCHANGED << configVars, domVars, browser, attempt, finalBuffer, result, fullHeight,
                    snapped, tileVars, countVars, lastOp, completed, scrolled >>

\* the bottom position without the viewport subtracted
FinalPosNoViewport == Max(0, fullHeight)

\* line 70
FinalPos == Max(0, fullHeight - viewportHeight)

\* the snap appended unconditionally
SnapAlways(finalPos) == TRUE

\* the snap threshold without the division by two
SnapCondNoHalf(finalPos) == finalPos > Last(positions) + overlap

\* line 71: finalPos > last + overlap / 2, a real-number comparison; both
\* sides are doubled to keep it in the integers
SnapCond(finalPos) == 2 * finalPos > 2 * Last(positions) + overlap

\* lines 69-76: snap to the bottom, then the for loop's initial state
PlanSnap ==
    /\ pc = "plan_snap"
    /\ IF SnapCond(FinalPos)
       THEN /\ positions' = Append(positions, FinalPos)
            /\ snapped' = TRUE
       ELSE /\ positions' = positions
            /\ snapped' = FALSE
    /\ screenshots' = << >>
    /\ counter' = 0
    /\ idx' = 1
    /\ completed' = completed \cup { "plan" }
    /\ Proceed("scroll")
    /\ UNCHANGED << configVars, domVars, browser, attempt, finalBuffer, result, fullHeight,
                    currentPos, scrollY, settleMs, countVars, lastOp, scrolled >>

\* lines 78-80: window.scrollTo(0, scrollPos)
Scroll ==
    /\ pc = "scroll"
    /\ lastOp' = "evaluate"
    /\ \E ok \in BOOLEAN :
         IF ok
         THEN /\ scrollY' = positions[idx]
              /\ scrolled' = TRUE
              /\ Proceed("wait")
         ELSE /\ UNCHANGED << scrollY, scrolled >>
              /\ Raise(Err("scroll"))
    /\ UNCHANGED << configVars, domVars, browser, attempt, finalBuffer, result, planVars,
                    idx, counter, screenshots, settleMs, countVars, completed >>

\* lines 83-89: the settle wait, longer before the first tile
Wait ==
    /\ pc = "wait"
    /\ lastOp' = "waitForTimeout"
    /\ settleMs' = IF counter = 0 THEN FirstSettleMs ELSE NextSettleMs
    /\ \E ok \in BOOLEAN :
         IF ok
         THEN /\ counter' = counter + 1
              /\ Proceed("shot")
         ELSE /\ counter' = counter
              /\ Raise(Err("waitForTimeout"))
    /\ UNCHANGED << configVars, domVars, browser, attempt, finalBuffer, result, planVars,
                    idx, screenshots, scrollY, countVars, completed, scrolled >>

\* the for loop left one position early
ForLoopDoneEarly == idx >= Len(positions) - 1

\* line 77: for (const scrollPos of positions) has no position left
ForLoopDone == idx = Len(positions)

\* lines 91-94: the PNG page.screenshot returns: the viewport (fullPage:
\* false) as it is scrolled now, identified by its capture number and attempt
Screenshot == [top |-> scrollY, shot |-> counter, attempt |-> attempt,
               height |-> viewportHeight]

\* lines 91-100: page.screenshot of the viewport, pushed with its position
Shot ==
    /\ pc = "shot"
    /\ lastOp' = "screenshot"
    /\ \E ok \in BOOLEAN :
         IF ok
         THEN /\ screenshots' = Append(screenshots,
                    [image |-> Screenshot, position |-> positions[idx]])
              /\ idx' = idx + 1
              /\ IF ForLoopDone
                 THEN /\ completed' = completed \cup { "tiles" }
                      /\ Proceed("stitch")
                 ELSE /\ completed' = completed
                      /\ Proceed("scroll")
         ELSE /\ UNCHANGED << screenshots, idx, completed >>
              /\ Raise(Err("screenshot"))
    /\ UNCHANGED << configVars, domVars, browser, attempt, finalBuffer, result, planVars,
                    counter, scrollY, settleMs, countVars, scrolled >>

\* ---------------------------------------------------- stitchScreenshots

\* line 121: the opaque white background
White == [white |-> TRUE]

\* one row of an image; every tile is as wide as the canvas and sits at
\* left = 0, so a row of the canvas holds the pixels of one image row
Pixel(image, row) == [image |-> image, row |-> row]

\* an input drawn only where the canvas is still background
PasteUnder(canvas, op) ==
    [r \in DOMAIN canvas |->
        IF op.top <= r /\ r < op.top + op.input.height /\ canvas[r] = White
        THEN Pixel(op.input, r - op.top)
        ELSE canvas[r]]

\* line 132: one composite operation: the opaque input replaces the rows
\* top .. top + height - 1 of the canvas, clipped to the canvas
Paste(canvas, op) ==
    [r \in DOMAIN canvas |->
        IF op.top <= r /\ r < op.top + op.input.height
        THEN Pixel(op.input, r - op.top)
        ELSE canvas[r]]

\* line 132: composite applies its operations in list order
RECURSIVE Composite(_, _)
Composite(canvas, ops) ==
    IF ops = << >>
    THEN canvas
    ELSE Composite(Paste(canvas, Head(ops)), Tail(ops))

\* lines 125-129
CompositeOperations(shots) ==
    [i \in 1..Len(shots) |->
        [input |-> shots[i].image, top |-> shots[i].position, left |-> 0]]

\* lines 115-135: a white canvas width x height, the tiles composited on it
StitchScreenshots(shots, height, width) ==
    [kind |-> "raster",
     width |-> width,
     height |-> height,
     rows |-> Composite([r \in 0..(height - 1) |-> White],
                        CompositeOperations(shots)),
     tiles |-> shots]

\* lines 204/214/228: stitchScreenshots on the tiles and the height that
\* takeScreenshotsOfPage returned; finalBuffer is assigned only when
\* toBuffer resolves, and then the function returns (line 234)
Stitch ==
    /\ pc = "stitch"
    /\ \E ok \in BOOLEAN :
         IF ok
         THEN /\ finalBuffer' = StitchScreenshots(screenshots, fullHeight,
                                                  viewportWidth)
              /\ completed' = completed \cup { "stitch" }
              /\ pc' = "finally"
              /\ UNCHANGED << caught, thrown, failures >>
         ELSE /\ UNCHANGED << finalBuffer, completed >>
              /\ Raise(Err("stitch"))
    /\ UNCHANGED << configVars, domVars, browser, attempt, result, planVars, tileVars,
                    countVars, lastOp, scrolled >>

\* ------------------------------------------------------ catch and finally

\* lines 215-217 and 229-231: retry through the proxy, or rethrow
Catch ==
    /\ pc = "catch"
    /\ IF ProxyConfigured
       THEN /\ attempt' = 2
            /\ pc' = "authenticate"
            /\ thrown' = thrown
       ELSE /\ attempt' = attempt
            /\ pc' = "finally"
            /\ thrown' = caught
    /\ UNCHANGED << configVars, domVars, browser, caught, finalBuffer, result, planVars,
                    tileVars, countVars, lastOp, failures, completed, scrolled >>

\* the retry without its second page.goto
AuthenticateNoGoto ==
    /\ pc = "authenticate"
    /\ lastOp' = "authenticate"
    /\ authCount' = authCount + 1
    /\ \E ok \in BOOLEAN :
         IF ok THEN Proceed("stabilize") ELSE Raise(Err("authenticate"))
    /\ UNCHANGED << configVars, domVars, browser, attempt, finalBuffer, result, planVars,
                    tileVars, launchCount, navCount, normCount, closeCount,
                    completed, scrolled >>

\* a rejection of page.authenticate logged and ignored
AuthenticateIgnoresFailure ==
    /\ pc = "authenticate"
    /\ lastOp' = "authenticate"
    /\ authCount' = authCount + 1
    /\ \E ok \in BOOLEAN :
         IF ok
         THEN Proceed("goto")
         ELSE /\ pc' = "goto"
              /\ failures' = failures \cup { Err("authenticate") }
              /\ UNCHANGED << caught, thrown >>
    /\ UNCHANGED << configVars, domVars, browser, attempt, finalBuffer, result, planVars,
                    tileVars, launchCount, navCount, normCount, closeCount,
                    completed, scrolled >>

\* lines 219-222: page.authenticate, inside the catch block
Authenticate ==
    /\ pc = "authenticate"
    /\ lastOp' = "authenticate"
    /\ authCount' = authCount + 1
    /\ \E ok \in BOOLEAN :
         IF ok THEN Proceed("goto") ELSE Raise(Err("authenticate"))
    /\ UNCHANGED << configVars, domVars, browser, attempt, finalBuffer, result, planVars,
                    tileVars, launchCount, navCount, normCount, closeCount,
                    completed, scrolled >>

\* the browser closed on the success path only
ShouldCloseOnSuccess == browser = "open" /\ thrown = NoError

\* line 236
ShouldClose == browser = "open"

\* a rejection of close() replacing whatever was travelling out
AfterCloseRethrows(closeOk) == IF closeOk THEN thrown ELSE Err("close")

\* line 237: .catch(console.error) swallows a rejection of close(); the
\* exception travelling out of the function stays what it was
AfterClose(closeOk) == thrown

\* the pending exception overridden by the return value
OutcomeIgnoresError(exc) == finalBuffer

\* lines 234-235: the caller gets the pending exception if there is one,
\* the returned finalBuffer otherwise
Outcome(exc) == IF exc # NoError
                THEN [kind |-> "error", error |-> exc]
                ELSE finalBuffer

\* lines 234-239: browser.close() in the finally block, then the function
\* returns or rethrows
Finally ==
    /\ pc = "finally"
    /\ IF ShouldClose
       THEN /\ \E closeOk \in BOOLEAN :
                 /\ browser' = IF closeOk THEN "closed" ELSE "close-failed"
                 /\ failures' = IF closeOk
                                THEN failures
                                ELSE failures \cup { Err("close") }
                 /\ thrown' = AfterClose(closeOk)
            /\ closeCount' = closeCount + 1
            /\ lastOp' = "close"
       ELSE UNCHANGED << browser, closeCount, lastOp, failures, thrown >>
    /\ result' = Outcome(thrown')
    /\ pc' = "done"
    /\ UNCHANGED << configVars, domVars, attempt, caught, finalBuffer, planVars,
                    tileVars, launchCount, navCount, authCount, normCount,
                    completed, scrolled >>

Next ==
    \/ ValidateURL
    \/ Launch
    \/ NewPage
    \/ Goto
    \/ Stabilize
    \/ Normalize
    \/ Measure
    \/ PlanLoop
    \/ PlanSnap
    \/ Scroll
    \/ Wait
    \/ Shot
    \/ Stitch
    \/ Catch
    \/ Authenticate
    \/ Finally

Spec == Init /\ [][Next]_vars

\* ------------------------- convertFixedElementsToAbsolute called directly

\* the module exports convertFixedElementsToAbsolute (line 266): a caller
\* holds a page showing some document at some scroll offset
InitNorm ==
    /\ pc = "page"
    /\ dom \in Docs
    /\ scrollY \in 0..MaxOffset
    /\ normAt = << >>
    /\ urlValid = TRUE
    /\ viewportWidth = DefaultViewportWidth
    /\ viewportHeight = DefaultViewportHeight
    /\ overlap = DefaultOverlap
    /\ useScraperApi = FALSE
    /\ proxyUsername = "undefined"
    /\ proxyPassword = "undefined"
    /\ browser = "open"
    /\ attempt = 1
    /\ caught = NoError
    /\ thrown = NoError
    /\ finalBuffer = Undefined
    /\ result = Pending
    /\ fullHeight = 0
    /\ positions = << >>
    /\ currentPos = 0
    /\ snapped = FALSE
    /\ idx = 0
    /\ counter = 0
    /\ screenshots = << >>
    /\ settleMs = 0
    /\ launchCount = 1
    /\ navCount = 1
    /\ authCount = 0
    /\ normCount = 0
    /\ closeCount = 0
    /\ lastOp = "goto"
    /\ failures = { }
    /\ completed = { "goto" }
    /\ scrolled = FALSE

\* lines 12-32: one call of convertFixedElementsToAbsolute(page) that resolves
NormalizePage ==
    /\ pc = "page"
    /\ normCount < MaxCalls
    /\ lastOp' = "evaluate"
    /\ normCount' = normCount + 1
    /\ dom' = ConvertFixedElementsToAbsolute(dom, scrollY)
    /\ normAt' = Append(normAt, scrollY)
    /\ UNCHANGED << pc, configVars, browser, attempt, caught, thrown, finalBuffer,
                    result, planVars, tileVars, launchCount, navCount, authCount,
                    closeCount, failures, completed, scrolled >>

\* the caller scrolls the page between two calls
ScrollPage ==
    /\ pc = "page"
    /\ \E y \in 0..MaxOffset :
         /\ y # scrollY
         /\ scrollY' = y
    /\ scrolled' = TRUE
    /\ lastOp' = "evaluate"
    /\ UNCHANGED << pc, configVars, browser, attempt, caught, thrown, finalBuffer,
                    result, planVars, idx, counter, screenshots, settleMs,
                    countVars, failures, completed, domVars >>

NextNorm ==
    \/ NormalizePage
    \/ ScrollPage

SpecNorm == InitNorm /\ [][NextNorm]_vars

\* every await of the function resumes once the awaited call has settled, so
\* the function keeps taking its next step as long as it has one
FairSpec == Spec /\ WF_vars(Next)

\* ================================================================ claims

\* the configuration invariant of the data model
ValidConfig == viewportHeight > 0 /\ 0 <= overlap /\ overlap < viewportHeight

\* positions is complete: the for loop over it, or the stitch, is running
PlanDone == pc \in { "scroll", "wait", "shot", "stitch" }

\* the session was opened by puppeteer.launch
SessionOpened == launchCount = 1

\* the proxy path as the options state it
ProxyPath == useScraperApi /\ proxyUsername = "secret" /\ proxyPassword = "secret"

ErrorResult(e) == [kind |-> "error", error |-> e]

\* C1: on every path out of captureFullPageScreenshot on which the session
\* was opened, close() is called exactly once, and it is the last browser
\* operation of the run (nothing runs after it).
C1_ClosedExactlyOnce ==
    /\ closeCount <= 1
    /\ (pc = "done" /\ SessionOpened) => (closeCount = 1 /\ lastOp = "close")
    /\ closeCount = 1 => pc = "done"

\* a run that failed in the stitch of the retried attempt and was closed
C1_Witness ==
    /\ pc = "done"
    /\ closeCount = 1
    /\ thrown.kind = "stitch"
    /\ thrown.attempt = 2

\* C2: when the first navigation fails and the proxy path is configured,
\* the run authenticates once and (unless authenticate itself throws)
\* navigates exactly once more; a failing second navigation is returned to
\* the caller; there are never more than two navigations.
C2_RetriedExactlyOnce ==
    /\ navCount <= 2
    /\ authCount <= 1
    /\ (pc = "done" /\ caught.kind = "goto" /\ ProxyPath) =>
          /\ authCount = 1
          /\ thrown.kind # "authenticate" => navCount = 2
    /\ (pc = "done" /\ thrown.kind = "goto" /\ thrown.attempt = 2) =>
          /\ navCount = 2
          /\ result = ErrorResult(thrown)

\* both navigations failed, and the second failure reached the caller
C2_Witness ==
    /\ pc = "done"
    /\ caught.kind = "goto"
    /\ thrown.kind = "goto"
    /\ thrown.attempt = 2
    /\ navCount = 2
    /\ authCount = 1

\* C3: if the first navigation succeeds and a later step of that attempt
\* fails, that error is returned without an authenticate call and without a
\* second navigation, whatever the proxy options are.
C3_OnlyNavigationRecoverable ==
    (caught # NoError /\ caught.kind # "goto") =>
        /\ authCount = 0
        /\ navCount = 1
        /\ pc = "done" => result = ErrorResult(caught)

\* C4: for every valid configuration the plan reaches the bottom of the
\* page: the last position plus viewportHeight is at least fullHeight.
C4_PlanCoversPage ==
    (PlanDone /\ ValidConfig) => Last(positions) + viewportHeight >= fullHeight

\* C5: a configuration with overlap >= viewportHeight or overlap < 0 is
\* rejected before any browser interaction: nothing is launched, no page
\* operation happens, the positions loop never runs, and the caller gets an
\* error.
C5_InvalidOverlapRejected ==
    (overlap >= viewportHeight \/ overlap < 0) =>
        /\ launchCount = 0
        /\ lastOp = "none"
        /\ pc \in { "validate", "finally", "done" }
        /\ pc = "done" => result.kind = "error"

\* C6: for every valid configuration the positions start at 0 and are
\* strictly increasing, the snapped bottom position included.
C6_PlanStrictlyIncreasing ==
    (PlanDone /\ ValidConfig) =>
        /\ positions[1] = 0
        /\ \A i \in 1..(Len(positions) - 1) : positions[i] < positions[i + 1]

\* a plan with at least two loop positions and the snapped one after them
C6_Witness ==
    /\ PlanDone
    /\ ValidConfig
    /\ snapped
    /\ Len(positions) >= 3

\* C7: for every valid configuration adjacent positions differ by at most
\* viewportHeight - overlap; only the final pair may differ by another
\* amount, when the bottom position was snapped, and then it differs by less.
C7_AdjacentWithinStep ==
    (PlanDone /\ ValidConfig) =>
        \A i \in 1..(Len(positions) - 1) :
            LET d == positions[i + 1] - positions[i]
                step == viewportHeight - overlap
            IN  /\ d <= step
                /\ d # step => (i = Len(positions) - 1 /\ snapped /\ d < step)

\* a snapped final pair closer than the step, after a full-step pair
C7_Witness ==
    /\ PlanDone
    /\ ValidConfig
    /\ snapped
    /\ Len(positions) >= 3
    /\ positions[2] - positions[1] = viewportHeight - overlap
    /\ Last(positions) - positions[Len(positions) - 1] < viewportHeight - overlap

\* C8: for every valid configuration and every fullHeight <= viewportHeight
\* the plan is exactly [0], and one tile is captured.
C8_ShortPageSingleTile ==
    (PlanDone /\ ValidConfig /\ fullHeight <= viewportHeight) =>
        /\ positions = << 0 >>
        /\ pc = "stitch" => Len(screenshots) = 1

\* a page exactly one viewport high, with a positive overlap, fully captured
C8_Witness ==
    /\ pc = "stitch"
    /\ ValidConfig
    /\ overlap > 0
    /\ fullHeight = viewportHeight
    /\ Len(screenshots) = 1

\* the planning algorithm as the specification words it: append offset and
\* advance by viewportHeight - overlap as long as offset + viewportHeight <=
\* totalHeight
RECURSIVE SpecLoop(_, _, _, _, _)
SpecLoop(offset, plan, total, vh, ov) ==
    IF offset + vh <= total
    THEN SpecLoop(offset + (vh - ov), Append(plan, offset), total, vh, ov)
    ELSE plan

\* ... then append finalOffset = max(0, totalHeight - viewportHeight) iff it
\* exceeds the last appended offset by more than overlap / 2
SpecPlan(total, vh, ov) ==
    LET plan == SpecLoop(0, << >>, total, vh, ov)
        finalOffset == IF total - vh > 0 THEN total - vh ELSE 0
    IN  IF 2 * (finalOffset - plan[Len(plan)]) > ov
        THEN Append(plan, finalOffset)
        ELSE plan

\* C9: for every valid configuration with fullHeight >= viewportHeight the
\* positions the code builds are the plan of the specified algorithm, and
\* for viewportHeight 1000, overlap 100, fullHeight 2000 they are
\* [0, 900, 1000].
C9_PlanMatchesAlgorithm ==
    /\ (PlanDone /\ ValidConfig /\ fullHeight >= viewportHeight) =>
           positions = SpecPlan(fullHeight, viewportHeight, overlap)
    /\ (PlanDone /\ viewportHeight = 1000 /\ overlap = 100 /\ fullHeight = 2000) =>
           positions = << 0, 900, 1000 >>

\* the example configuration with its plan built and its tiles captured
C9_Witness ==
    /\ pc = "stitch"
    /\ viewportHeight = 1000
    /\ overlap = 100
    /\ fullHeight = 2000
    /\ Len(screenshots) = 3

\* C10 as stated: for viewportHeight 768, overlap 100, fullHeight 2000 the
\* snap to 1232 is suppressed and the plan is [0, 668, 1336].
C10_SnapSuppressed ==
    (PlanDone /\ viewportHeight = 768 /\ overlap = 100 /\ fullHeight = 2000) =>
        /\ ~snapped
        /\ positions = << 0, 668, 1336 >>

\* C10 as amended: for viewportHeight 768, overlap 100, fullHeight 2000 the
\* loop stops at [0, 668], the snap to 1232 is appended, and the plan is
\* [0, 668, 1232].
C10_SnapAppended ==
    (PlanDone /\ viewportHeight = 768 /\ overlap = 100 /\ fullHeight = 2000) =>
        /\ snapped
        /\ positions = << 0, 668, 1232 >>

\* the default configuration on a page 2000 high, plan complete
C10_Witness ==
    /\ PlanDone
    /\ viewportHeight = 768
    /\ overlap = 100
    /\ fullHeight = 2000
    /\ Len(positions) = 3

\* the tiles of a list that cover row r of the canvas
Covering(tiles, r) ==
    { i \in 1..Len(tiles) :
        tiles[i].position <= r /\ r < tiles[i].position + tiles[i].image.height }

Latest(S) == CHOOSE m \in S : \A x \in S : x <= m

\* C11: the stitched raster is viewportWidth wide and fullHeight high; every
\* row that tiles cover holds the pixels of the latest tile in list order that
\* covers it, taken at y = tile.position; a row no tile covers is white.
C11_LaterTileWins ==
    finalBuffer.kind = "raster" =>
        /\ finalBuffer.width = viewportWidth
        /\ finalBuffer.height = fullHeight
        /\ DOMAIN finalBuffer.rows = 0..(fullHeight - 1)
        /\ \A r \in 0..(fullHeight - 1) :
              LET tiles == finalBuffer.tiles
                  over == Covering(tiles, r)
              IN  IF over = { }
                  THEN finalBuffer.rows[r] = White
                  ELSE finalBuffer.rows[r] =
                         Pixel(tiles[Latest(over)].image,
                               r - tiles[Latest(over)].position)

\* a raster of three tiles that cover the canvas, with a row two tiles share
C11_Witness ==
    /\ finalBuffer.kind = "raster"
    /\ ValidConfig
    /\ Len(finalBuffer.tiles) >= 3
    /\ \A r \in 0..(fullHeight - 1) : Covering(finalBuffer.tiles, r) # { }
    /\ \E r \in 0..(fullHeight - 1) :
          Cardinality(Covering(finalBuffer.tiles, r)) >= 2

\* C12: one tile per position, in plan order: the i-th tile carries the i-th
\* position and shows the page scrolled there, it is the i-th capture, a
\* tile's scroll, wait and snapshot are over before the next scroll, the
\* stitch starts only with all tiles captured, and the raster composites the
\* tiles in that order (ascending for a valid configuration).
C12_TilesInPlanOrder ==
    /\ PlanDone =>
          /\ Len(screenshots) = idx - 1
          /\ \A i \in 1..Len(screenshots) :
                /\ screenshots[i].position = positions[i]
                /\ screenshots[i].image.top = positions[i]
                /\ screenshots[i].image.shot = i
                /\ screenshots[i].image.attempt = attempt
          /\ pc = "stitch" => Len(screenshots) = Len(positions)
          /\ pc # "stitch" => idx <= Len(positions)
          /\ pc \in { "wait", "shot" } => scrollY = positions[idx]
          /\ pc = "wait" => counter = idx - 1
          /\ pc = "shot" =>
                /\ counter = idx
                /\ settleMs = IF idx = 1 THEN FirstSettleMs ELSE NextSettleMs
          /\ ValidConfig =>
                \A i \in 1..(Len(screenshots) - 1) :
                    screenshots[i].position < screenshots[i + 1].position
    /\ finalBuffer.kind = "raster" =>
          /\ finalBuffer.tiles = screenshots
          /\ Len(finalBuffer.tiles) = Len(positions)
          /\ \A i \in 1..Len(positions) :
                finalBuffer.tiles[i].position = positions[i]

\* three tiles captured and stitched on the retried attempt
C12_Witness ==
    /\ finalBuffer.kind = "raster"
    /\ attempt = 2
    /\ Len(finalBuffer.tiles) = 3

AllSteps == { "goto", "normalize", "measure", "plan", "tiles", "stitch" }

\* C13: the caller gets a raster or an error, never both and never a partial
\* image: a raster only if navigation, normalization, measuring, planning,
\* every planned tile and the stitch all completed in one and the same
\* attempt, which raised nothing; an error only if no raster was assigned.
C13_RasterOrError ==
    /\ pc = "done" => result.kind \in { "raster", "error" }
    /\ result.kind = "raster" =>
          /\ thrown = NoError
          /\ result = finalBuffer
          /\ completed = AllSteps
          /\ navCount = attempt
          /\ Len(result.tiles) = Len(positions)
          /\ \A i \in 1..Len(result.tiles) :
                /\ result.tiles[i].position = positions[i]
                /\ result.tiles[i].image.attempt = attempt
          /\ \A f \in failures : f.attempt = attempt => f.kind = "close"
    /\ result.kind = "error" =>
          /\ finalBuffer = Undefined
          /\ result.error \in failures

\* a raster returned by the retried attempt after a failed first capture
C13_Witness ==
    /\ pc = "done"
    /\ result.kind = "raster"
    /\ attempt = 2
    /\ caught.kind = "screenshot"

\* C14: when the first navigation fails and the proxy path is not
\* configured, there is no authenticate call, no second navigation and no
\* capture step, and the caller gets the first navigation's error.
C14_NoProxyNoRetry ==
    (caught.kind = "goto" /\ ~ProxyPath) =>
        /\ authCount = 0
        /\ navCount = 1
        /\ normCount = 0
        /\ completed = { }
        /\ ~scrolled
        /\ lastOp \in { "goto", "close" }
        /\ pc \in { "catch", "finally", "done" }
        /\ pc \in { "finally", "done" } => thrown = caught
        /\ pc = "done" => result = ErrorResult(caught)

\* the flag set but the password missing: the navigation error is returned
C14_Witness ==
    /\ pc = "done"
    /\ caught.kind = "goto"
    /\ useScraperApi
    /\ proxyUsername = "secret"
    /\ proxyPassword = "undefined"
    /\ result = ErrorResult(caught)

\* C15: in a run that reaches the capture phase the normalization is invoked
\* exactly once in the whole run, and no scrollTo was issued before it.
C15_NormalizedOnceBeforeScroll ==
    /\ normCount <= 1
    /\ PlanDone => normCount = 1
    /\ pc = "normalize" => ~scrolled

\* C17: if page.authenticate fails, the authentication error is returned to
\* the caller; no second navigation and no capture step follows it.
C17_AuthFailureFatal ==
    (\E f \in failures : f.kind = "authenticate") =>
        /\ pc \in { "finally", "done" }
        /\ thrown.kind = "authenticate"
        /\ navCount = 1
        /\ lastOp \in { "authenticate", "close" }
        /\ pc = "done" => result = ErrorResult(Err("authenticate"))

\* a failed first navigation, then a failed authenticate, returned
C17_Witness ==
    /\ pc = "done"
    /\ caught.kind = "goto"
    /\ result.kind = "error"
    /\ result.error.kind = "authenticate"

\* C18: for every valid configuration with fullHeight >= viewportHeight each
\* position o has o + viewportHeight <= fullHeight, so every tile of the
\* raster lies inside the canvas.
C18_TilesInsideCanvas ==
    /\ (PlanDone /\ ValidConfig /\ fullHeight >= viewportHeight) =>
          \A i \in 1..Len(positions) :
              positions[i] + viewportHeight <= fullHeight
    /\ (finalBuffer.kind = "raster" /\ ValidConfig
            /\ fullHeight >= viewportHeight) =>
          \A i \in 1..Len(finalBuffer.tiles) :
              /\ 0 <= finalBuffer.tiles[i].position
              /\ finalBuffer.tiles[i].position
                   + finalBuffer.tiles[i].image.height <= finalBuffer.height

\* a raster whose snapped last tile ends exactly at the canvas bottom
C18_Witness ==
    /\ finalBuffer.kind = "raster"
    /\ ValidConfig
    /\ snapped
    /\ fullHeight > viewportHeight
    /\ Last(positions) + viewportHeight = finalBuffer.height

\* C19: for every valid configuration the positions loop terminates and the
\* run, whose calls all settle, reaches a terminal state (a raster or an
\* error returned).
C19_RunTerminates ==
    ValidConfig ~> (pc = "done" /\ result.kind \in { "raster", "error" })

\* a finished run of a valid configuration whose loop ran three times
C19_Witness ==
    /\ pc = "done"
    /\ ValidConfig
    /\ ~snapped
    /\ Len(positions) >= 3
    /\ result.kind = "raster"

\* what the pipeline threw last, close() left aside
PipelineErrors == { f \in failures : f.kind # "close" }

\* C20: a failure of close() never changes the outcome: a stitched raster is
\* still returned, and a failed pipeline still returns its own error.
C20_CloseFailureHarmless ==
    (pc = "done" /\ browser = "close-failed") =>
        /\ finalBuffer.kind = "raster" => result = finalBuffer
        /\ finalBuffer.kind # "raster" =>
              /\ result.kind = "error"
              /\ result.error \in PipelineErrors
              /\ \A f \in PipelineErrors : f.attempt <= result.error.attempt

\* close() failed after a failed screenshot: the screenshot error is returned
C20_Witness ==
    /\ pc = "done"
    /\ browser = "close-failed"
    /\ result.kind = "error"
    /\ result.error.kind = "screenshot"

\* the element was converted by a completed call
Converted(d, el) == d[el].position = "absolute" /\ d[el].top # Auto

\* C16: a completed call converts every element of the body's subtree whose
\* computed position is fixed, children of converted elements included, to
\* absolute with top = rect.top + scroll offset and left = rect.left, and
\* leaves position, top and left of every other element, the ones an earlier
\* call converted among them, unchanged at whatever scroll offset it runs.
C16_NormalizeIdempotent ==
    [][ (normAt' # normAt) =>
          /\ Len(dom') = Len(dom)
          /\ \A el \in 1..Len(dom) :
                IF dom[el].position = "fixed"
                THEN /\ dom'[el].position = "absolute"
                     /\ dom'[el].top = Px(dom[el].layoutTop + scrollY)
                     /\ dom'[el].left = Px(dom[el].layoutLeft)
                ELSE /\ dom'[el].position = dom[el].position
                     /\ dom'[el].top = dom[el].top
                     /\ dom'[el].left = dom[el].left
          /\ \A el \in 1..Len(dom) : Converted(dom, el) => dom'[el] = dom[el]
      ]_vars

\* a banner and the element nested in it, converted at one scroll offset and
\* untouched by a second call at a larger one
C16_Witness ==
    /\ Len(normAt) = 2
    /\ normAt[1] < normAt[2]
    /\ Len(dom) = 3
    /\ dom[3].parent = 2
    /\ Converted(dom, 2)
    /\ Converted(dom, 3)
    /\ dom[3].top = Px(dom[3].layoutTop + normAt[1])

====
